---- MODULE Spec2Model ----
(***************************************************************************)
(* A model of the two processes of the repository, nfl_ingestor/main.py    *)
(* and nfl_processor/main.py, and of the RabbitMQ broker they talk to.     *)
(*                                                                         *)
(* Each process is a sequential program; pc[p] is the statement it is at.  *)
(* The broker is the environment: it routes published frames, pushes       *)
(* deliveries to the registered consumer, drops connections and restarts.  *)
(* An interrupt signal (KeyboardInterrupt) can arrive at any statement.    *)
(***************************************************************************)
EXTENDS Integers, Sequences, FiniteSets, TLC

\* ------------------------------------------------------------------ bounds

\* connection attempts that may fail in one call of create_rabbitmq_connection,
\* when the call is studied on its own (SpecConnect)
MaxConnectFailures == 8
\* the same, when the whole run of a process is studied (Spec, SpecConsumer)
MaxRunFailures == 1
\* messages the ingestor may publish in one run
MaxMsgs == 2
\* bodies put on the queue by a publisher other than the ingestor (SpecConsumer)
MaxForeign == 2
\* interrupt signals one process may receive
MaxInterrupts == 1
\* broker restarts
MaxRestarts == 1

\* ------------------------------------------------------- program constants

\* retry_delay = 1
initial_retry_delay == 1
\* max_delay = 60
max_delay == 60
\* pika.BasicProperties(delivery_mode=2)
delivery_mode == 2
\* channel.basic_qos(prefetch_count=1)
prefetch_count == 1
\* channel.queue_declare(queue=queue_name, durable=True), both roles
durable == TRUE
\* basic_nack(delivery_tag=..., requeue=False), both except clauses
requeue == FALSE

Ingestor == "ingestor"
Processor == "processor"
Procs == {Ingestor, Processor}

VARIABLES
    pc,              \* pc[p]: the statement process p is at
    conn,            \* conn[p]: "none", "open", "lost" (dropped), "closed" (by close())
    retry_delay,     \* retry_delay[p]: the local of create_rabbitmq_connection
    sleeps,          \* sleeps[p]: the arguments of time.sleep in the connect loop, in order
    attempts,        \* attempts[p]: BlockingConnection constructions so far
    exc,             \* exc[p]: the exception main has seen: "none", "KeyboardInterrupt", "Exception"
    intr,            \* intr[p]: interrupt signals received
    intrAt,          \* intrAt[p]: where the first interrupt arrived (IntrPoint), or "none"
    closeCalls,      \* closeCalls[p]: calls of connection.close()
    message_counter, \* the ingestor's message_counter
    pmCalls,         \* calls of publish_message
    pmPublishes,     \* basic_publish attempts of the current publish_message call
    published,       \* message numbers whose publish_message call returned
    wire,            \* frames written by basic_publish the broker has not routed yet
    queueExists,     \* the queue is declared on the broker
    queueDurable,    \* the durable flag it was declared with
    queue,           \* the ready messages of the queue, oldest first
    unacked,         \* deliveries sent to the consumer and not settled, oldest first
    lastTag,         \* the last delivery tag of the processor's channel
    consumer,        \* the processor's consumer is registered
    consumerPrefetch,\* the prefetch limit the broker applies to it (0: none)
    channelPrefetch, \* the prefetch limit of the processor's channel (0: none)
    restarts,        \* broker restarts so far
    foreign,         \* bodies published by others so far
    cur,             \* the delivery process_message was last called with
    lastDispatched,  \* the last delivery tag handed to process_message
    cbState,         \* "none", "running", "returned", "raised", "interrupted"
    settleCalls,     \* basic_ack / basic_nack calls of that process_message call
    settleEffects,   \* how many of them the broker applied
    handled          \* the messages handed to process_message, in order

vars == << pc, conn, retry_delay, sleeps, attempts, exc, intr, intrAt, closeCalls,
           message_counter, pmCalls, pmPublishes, published, wire,
           queueExists, queueDurable, queue, unacked, lastTag, consumer,
           consumerPrefetch, channelPrefetch, restarts, foreign,
           cur, lastDispatched, cbState, settleCalls, settleEffects, handled >>

procVars == << pc, conn, retry_delay, sleeps, attempts, exc, intr, intrAt, closeCalls >>
ingestorVars == << message_counter, pmCalls, pmPublishes, published >>
brokerVars == << queueExists, queueDurable, queue, unacked, lastTag, consumer,
                 consumerPrefetch, channelPrefetch, restarts, foreign, wire >>
callbackVars == << cur, lastDispatched, cbState, settleCalls, settleEffects, handled >>

Min(a, b) == IF a < b THEN a ELSE b

NoDelivery == [tag |-> 0, msg |-> [kind |-> "none", num |-> 0, mode |-> 0]]

Set(f, p, v) == [f EXCEPT ![p] = v]

Terminal == {"terminated", "crashed"}

\* ---------------------------------------------------------------- Init

Init ==
    /\ pc = [p \in Procs |-> "connecting"]
    /\ conn = [p \in Procs |-> "none"]
    /\ retry_delay = [p \in Procs |-> initial_retry_delay]
    /\ sleeps = [p \in Procs |-> << >>]
    /\ attempts = [p \in Procs |-> 0]
    /\ exc = [p \in Procs |-> "none"]
    /\ intr = [p \in Procs |-> 0]
    /\ intrAt = [p \in Procs |-> "none"]
    /\ closeCalls = [p \in Procs |-> 0]
    /\ message_counter = 1
    /\ pmCalls = 0
    /\ pmPublishes = 0
    /\ published = {}
    /\ wire = << >>
    /\ queueExists = FALSE
    /\ queueDurable = FALSE
    /\ queue = << >>
    /\ unacked = << >>
    /\ lastTag = 0
    /\ consumer = FALSE
    /\ consumerPrefetch = 0
    /\ channelPrefetch = 0
    /\ restarts = 0
    /\ foreign = 0
    /\ cur = NoDelivery
    /\ lastDispatched = 0
    /\ cbState = "none"
    /\ settleCalls = << >>
    /\ settleEffects = 0
    /\ handled = << >>

\* ------------------------------------------ create_rabbitmq_connection

\* The doubling without the cap.
NextDelayUncapped(d) == d * 2

\* retry_delay = min(retry_delay * 2, max_delay)
NextDelay(d) == Min(d * 2, max_delay)

\* pika.BlockingConnection(parameters) succeeds: return connection
ConnectOk(p) ==
    /\ pc[p] = "connecting"
    /\ attempts' = Set(attempts, p, attempts[p] + 1)
    /\ conn' = Set(conn, p, "open")
    /\ pc' = Set(pc, p, "channel")
    /\ UNCHANGED << retry_delay, sleeps, exc, intr, intrAt, closeCalls >>
    /\ UNCHANGED << ingestorVars, brokerVars, callbackVars >>

\* A connect loop that gives up: the failure of the attempt leaves the call.
ConnectFailRaises(p, n) ==
    /\ pc[p] = "connecting"
    /\ Len(sleeps[p]) < n
    /\ attempts' = Set(attempts, p, attempts[p] + 1)
    /\ exc' = Set(exc, p, "Exception")
    /\ pc' = Set(pc, p, "crashed")
    /\ UNCHANGED << conn, retry_delay, sleeps, intr, intrAt, closeCalls >>
    /\ UNCHANGED << ingestorVars, brokerVars, callbackVars >>

\* A connect loop that gives up after the first retry.
ConnectFailOnce(p, n) ==
    /\ pc[p] = "connecting"
    /\ Len(sleeps[p]) < n
    /\ attempts' = Set(attempts, p, attempts[p] + 1)
    /\ IF sleeps[p] = << >>
       THEN /\ sleeps' = Set(sleeps, p, Append(sleeps[p], retry_delay[p]))
            /\ pc' = Set(pc, p, "backoff")
            /\ UNCHANGED exc
       ELSE /\ exc' = Set(exc, p, "Exception")
            /\ pc' = Set(pc, p, "crashed")
            /\ UNCHANGED sleeps
    /\ UNCHANGED << conn, retry_delay, intr, intrAt, closeCalls >>
    /\ UNCHANGED << ingestorVars, brokerVars, callbackVars >>

\* pika.BlockingConnection(parameters) raises: except Exception logs the
\* failure and calls time.sleep(retry_delay)
ConnectFail(p, n) ==
    /\ pc[p] = "connecting"
    /\ Len(sleeps[p]) < n
    /\ attempts' = Set(attempts, p, attempts[p] + 1)
    /\ sleeps' = Set(sleeps, p, Append(sleeps[p], retry_delay[p]))
    /\ pc' = Set(pc, p, "backoff")
    /\ UNCHANGED << conn, retry_delay, exc, intr, intrAt, closeCalls >>
    /\ UNCHANGED << ingestorVars, brokerVars, callbackVars >>

\* A connect loop that retries only while the delay is below the cap.
BackoffStopsAtCap(p) ==
    /\ pc[p] = "backoff"
    /\ retry_delay[p] < max_delay
    /\ retry_delay' = Set(retry_delay, p, NextDelay(retry_delay[p]))
    /\ pc' = Set(pc, p, "connecting")
    /\ UNCHANGED << conn, sleeps, attempts, exc, intr, intrAt, closeCalls >>
    /\ UNCHANGED << ingestorVars, brokerVars, callbackVars >>

\* time.sleep returns: the delay is doubled up to the cap and the loop repeats
BackoffDone(p) ==
    /\ pc[p] = "backoff"
    /\ retry_delay' = Set(retry_delay, p, NextDelay(retry_delay[p]))
    /\ pc' = Set(pc, p, "connecting")
    /\ UNCHANGED << conn, sleeps, attempts, exc, intr, intrAt, closeCalls >>
    /\ UNCHANGED << ingestorVars, brokerVars, callbackVars >>

\* ------------------------------------------------------------ the broker

Msgs(ds) == [i \in 1..Len(ds) |-> ds[i].msg]

\* What a restart keeps of the queue: a durable queue keeps its persistent
\* messages (delivery_mode 2), a transient queue is gone.
Survivors(q) == SelectSeq(q, LAMBDA m : m.mode = 2)

\* The broker's side of connection p going away (dropped or closed): frames
\* not yet read are gone, unsettled deliveries return to the front of the
\* queue and the consumer is removed.
BrokerDrops(p) ==
    IF p = Ingestor
    THEN /\ wire' = << >>
         /\ UNCHANGED << queue, unacked, consumer >>
    ELSE /\ queue' = Msgs(unacked) \o queue
         /\ unacked' = << >>
         /\ consumer' = FALSE
         /\ UNCHANGED wire

\* The connection of p is lost (network partition, heartbeat timeout).
ConnLost(p) ==
    /\ conn[p] = "open"
    /\ pc[p] \notin Terminal
    /\ conn' = Set(conn, p, "lost")
    /\ BrokerDrops(p)
    /\ UNCHANGED << pc, retry_delay, sleeps, attempts, exc, intr, intrAt, closeCalls >>
    /\ UNCHANGED << queueExists, queueDurable, lastTag, consumerPrefetch,
                    channelPrefetch, restarts, foreign >>
    /\ UNCHANGED << ingestorVars, callbackVars >>

\* The broker restarts: every connection is lost, frames in flight are gone,
\* and the queue comes back with what it had on stable storage.
BrokerRestart ==
    /\ restarts < MaxRestarts
    /\ restarts' = restarts + 1
    /\ conn' = [p \in Procs |-> IF conn[p] = "open" THEN "lost" ELSE conn[p]]
    /\ wire' = << >>
    /\ queueExists' = (queueExists /\ queueDurable)
    /\ queue' = IF queueExists /\ queueDurable
                THEN Survivors(Msgs(unacked) \o queue)
                ELSE << >>
    /\ unacked' = << >>
    /\ consumer' = FALSE
    /\ UNCHANGED << pc, retry_delay, sleeps, attempts, exc, intr, intrAt, closeCalls >>
    /\ UNCHANGED << queueDurable, lastTag, consumerPrefetch, channelPrefetch, foreign >>
    /\ UNCHANGED << ingestorVars, callbackVars >>

\* The broker reads the next published frame and routes it through the
\* default exchange to the queue named by the routing key.
Route ==
    /\ wire # << >>
    /\ wire' = Tail(wire)
    /\ queue' = IF queueExists THEN Append(queue, Head(wire)) ELSE queue
    /\ UNCHANGED << procVars, ingestorVars, callbackVars >>
    /\ UNCHANGED << queueExists, queueDurable, unacked, lastTag, consumer,
                    consumerPrefetch, channelPrefetch, restarts, foreign >>

\* The bodies a publisher may put on the queue, by what process_message
\* does with them: "valid" is the ingestor's JSON object with status
\* placeholder_data, "other_status" a JSON object with another status,
\* "not_object" JSON that is no object, "bad_json" UTF-8 text that is no JSON,
\* "bad_utf8" bytes that are no UTF-8.
ForeignKinds == {"valid", "other_status", "not_object", "bad_json", "bad_utf8"}

ForeignPublish(k) ==
    /\ foreign < MaxForeign
    /\ queueExists
    /\ foreign' = foreign + 1
    /\ queue' = Append(queue, [kind |-> k, num |-> 0 - (foreign + 1), mode |-> 2])
    /\ UNCHANGED << procVars, ingestorVars, callbackVars >>
    /\ UNCHANGED << queueExists, queueDurable, unacked, lastTag, consumer,
                    consumerPrefetch, channelPrefetch, restarts, wire >>

\* The broker pushes the oldest ready message to the consumer, within the
\* consumer's prefetch limit.
Deliver ==
    /\ consumer
    /\ conn[Processor] = "open"
    /\ queue # << >>
    /\ consumerPrefetch = 0 \/ Len(unacked) < consumerPrefetch
    /\ lastTag' = lastTag + 1
    /\ unacked' = Append(unacked, [tag |-> lastTag + 1, msg |-> Head(queue)])
    /\ queue' = Tail(queue)
    /\ UNCHANGED << procVars, ingestorVars, callbackVars >>
    /\ UNCHANGED << queueExists, queueDurable, consumer, consumerPrefetch,
                    channelPrefetch, restarts, foreign, wire >>

\* queue_declare(queue, durable=d) succeeds when the queue is absent or was
\* declared with the same properties; it leaves an existing queue as it is.
DeclareAccepted(d) == ~queueExists \/ queueDurable = d

QueueDeclared(d) ==
    /\ queueExists' = TRUE
    /\ queueDurable' = IF queueExists THEN queueDurable ELSE d

\* ------------------------------------------------------- main, both roles

\* connection.channel() returns; main enters its try block
OpenChannel(p) ==
    /\ pc[p] = "channel"
    /\ conn[p] = "open"
    /\ pc' = Set(pc, p, IF p = Ingestor THEN "loop" ELSE "declare")
    /\ UNCHANGED << conn, retry_delay, sleeps, attempts, exc, intr, intrAt, closeCalls >>
    /\ UNCHANGED << ingestorVars, brokerVars, callbackVars >>

\* connection.channel() raises (the broker refuses the channel, or the
\* connection dropped): the call is outside the try block, so the exception
\* leaves main and nothing closes the connection
OpenChannelFails(p) ==
    /\ pc[p] = "channel"
    /\ conn[p] \in {"open", "lost"}
    /\ pc' = Set(pc, p, "crashed")
    /\ exc' = Set(exc, p, "Exception")
    /\ UNCHANGED << conn, retry_delay, sleeps, attempts, intr, intrAt, closeCalls >>
    /\ UNCHANGED << ingestorVars, brokerVars, callbackVars >>

\* A main whose except Exception clause connects again.
MainExceptReconnects(p) ==
    /\ pc[p] = "main_except"
    /\ pc' = Set(pc, p, "connecting")
    /\ UNCHANGED << conn, retry_delay, sleeps, attempts, exc, intr, intrAt, closeCalls >>
    /\ UNCHANGED << ingestorVars, brokerVars, callbackVars >>

\* A main whose except Exception clause logs and re-raises.
MainExceptReraises(p) ==
    /\ pc[p] = "main_except"
    /\ pc' = Set(pc, p, "finally_reraise")
    /\ UNCHANGED << conn, retry_delay, sleeps, attempts, exc, intr, intrAt, closeCalls >>
    /\ UNCHANGED << ingestorVars, brokerVars, callbackVars >>

\* except Exception as e: logger.error(...), then the finally block
MainExcept(p) ==
    /\ pc[p] = "main_except"
    /\ pc' = Set(pc, p, "finally")
    /\ UNCHANGED << conn, retry_delay, sleeps, attempts, exc, intr, intrAt, closeCalls >>
    /\ UNCHANGED << ingestorVars, brokerVars, callbackVars >>

\* Where main is after its finally block: it returns when the exception was
\* handled, and the exception leaves main when it was raised in a handler.
AfterFinally(p) == IF pc[p] = "finally" THEN "terminated" ELSE "crashed"

\* finally: try: connection.close() except: pass
\* close() is a handshake, so the broker has read every frame sent before it;
\* on a connection that is already gone it raises and the error is dropped.
Close(p) ==
    /\ pc[p] \in {"finally", "finally_reraise"}
    /\ closeCalls' = Set(closeCalls, p, closeCalls[p] + 1)
    /\ pc' = Set(pc, p, AfterFinally(p))
    /\ IF conn[p] = "open"
       THEN /\ p = Ingestor => wire = << >>
            /\ conn' = Set(conn, p, "closed")
            /\ BrokerDrops(p)
       ELSE UNCHANGED << conn, wire, queue, unacked, consumer >>
    /\ UNCHANGED << retry_delay, sleeps, attempts, exc, intr, intrAt >>
    /\ UNCHANGED << queueExists, queueDurable, lastTag, consumerPrefetch,
                    channelPrefetch, restarts, foreign >>
    /\ UNCHANGED << ingestorVars, callbackVars >>

\* ------------------------------------------------------------ the ingestor

\* while True: build test_message, call publish_message
Loop ==
    /\ pc[Ingestor] = "loop"
    /\ message_counter <= MaxMsgs
    /\ pmCalls' = pmCalls + 1
    /\ pmPublishes' = 0
    /\ pc' = Set(pc, Ingestor, "pm_declare")
    /\ UNCHANGED << conn, retry_delay, sleeps, attempts, exc, intr, intrAt, closeCalls >>
    /\ UNCHANGED << message_counter, published, brokerVars, callbackVars >>

\* A publish_message that publishes without declaring the queue first.
PmDeclareSkipped ==
    /\ pc[Ingestor] = "pm_declare"
    /\ conn[Ingestor] = "open"
    /\ pc' = Set(pc, Ingestor, "pm_publish")
    /\ UNCHANGED << conn, retry_delay, sleeps, attempts, exc, intr, intrAt, closeCalls >>
    /\ UNCHANGED << ingestorVars, brokerVars, callbackVars >>

\* publish_message: channel.queue_declare(queue=queue_name, durable=True)
PmDeclare ==
    /\ pc[Ingestor] = "pm_declare"
    /\ conn[Ingestor] = "open"
    /\ wire = << >>
    /\ DeclareAccepted(durable)
    /\ QueueDeclared(durable)
    /\ pc' = Set(pc, Ingestor, "pm_publish")
    /\ UNCHANGED << conn, retry_delay, sleeps, attempts, exc, intr, intrAt, closeCalls >>
    /\ UNCHANGED << queue, unacked, lastTag, consumer, consumerPrefetch,
                    channelPrefetch, restarts, foreign, wire >>
    /\ UNCHANGED << ingestorVars, callbackVars >>

\* publish_message: queue_declare raises; except Exception logs and re-raises
\* to main, whose except Exception clause takes it
PmDeclareFails ==
    /\ pc[Ingestor] = "pm_declare"
    /\ conn[Ingestor] = "lost"
    /\ exc' = Set(exc, Ingestor, "Exception")
    /\ pc' = Set(pc, Ingestor, "main_except")
    /\ UNCHANGED << conn, retry_delay, sleeps, attempts, intr, intrAt, closeCalls >>
    /\ UNCHANGED << ingestorVars, brokerVars, callbackVars >>

\* publish_message: channel.basic_publish(..., delivery_mode=2) writes the
\* frame and returns; back in main, message_counter += 1 and time.sleep(interval)
PmPublish ==
    /\ pc[Ingestor] = "pm_publish"
    /\ conn[Ingestor] = "open"
    /\ pmPublishes' = pmPublishes + 1
    /\ wire' = Append(wire, [kind |-> "valid", num |-> message_counter,
                             mode |-> delivery_mode])
    /\ published' = published \cup {message_counter}
    /\ message_counter' = message_counter + 1
    /\ pc' = Set(pc, Ingestor, "sleep")
    /\ UNCHANGED << conn, retry_delay, sleeps, attempts, exc, intr, intrAt, closeCalls >>
    /\ UNCHANGED << queueExists, queueDurable, queue, unacked, lastTag, consumer,
                    consumerPrefetch, channelPrefetch, restarts, foreign >>
    /\ UNCHANGED << pmCalls, callbackVars >>

\* A publish_message that tries basic_publish again after a failure.
PmPublishRetries ==
    /\ pc[Ingestor] = "pm_publish"
    /\ conn[Ingestor] = "lost"
    /\ pmPublishes < 3
    /\ pmPublishes' = pmPublishes + 1
    /\ UNCHANGED << procVars, message_counter, pmCalls, published >>
    /\ UNCHANGED << brokerVars, callbackVars >>

\* A main that increments message_counter before it calls publish_message, so
\* that a failed publish has used its number.
PmPublishFailsCounts ==
    /\ pc[Ingestor] = "pm_publish"
    /\ conn[Ingestor] = "lost"
    /\ pmPublishes' = pmPublishes + 1
    /\ message_counter' = message_counter + 1
    /\ exc' = Set(exc, Ingestor, "Exception")
    /\ pc' = Set(pc, Ingestor, "main_except")
    /\ UNCHANGED << conn, retry_delay, sleeps, attempts, intr, intrAt, closeCalls >>
    /\ UNCHANGED << pmCalls, published, brokerVars, callbackVars >>

\* publish_message: basic_publish raises; except Exception logs and re-raises
PmPublishFails ==
    /\ pc[Ingestor] = "pm_publish"
    /\ conn[Ingestor] = "lost"
    /\ pmPublishes' = pmPublishes + 1
    /\ exc' = Set(exc, Ingestor, "Exception")
    /\ pc' = Set(pc, Ingestor, "main_except")
    /\ UNCHANGED << conn, retry_delay, sleeps, attempts, intr, intrAt, closeCalls >>
    /\ UNCHANGED << message_counter, pmCalls, published, brokerVars, callbackVars >>

\* time.sleep(interval) returns
SleepDone ==
    /\ pc[Ingestor] = "sleep"
    /\ pc' = Set(pc, Ingestor, "loop")
    /\ UNCHANGED << conn, retry_delay, sleeps, attempts, exc, intr, intrAt, closeCalls >>
    /\ UNCHANGED << ingestorVars, brokerVars, callbackVars >>

\* ----------------------------------------------------------- the processor

\* A processor that declares the queue with durable=False.
DeclareTransient ==
    /\ pc[Processor] = "declare"
    /\ conn[Processor] = "open"
    /\ DeclareAccepted(FALSE)
    /\ QueueDeclared(FALSE)
    /\ pc' = Set(pc, Processor, "consume")
    /\ UNCHANGED << conn, retry_delay, sleeps, attempts, exc, intr, intrAt, closeCalls >>
    /\ UNCHANGED << queue, unacked, lastTag, consumer, consumerPrefetch,
                    channelPrefetch, restarts, foreign, wire >>
    /\ UNCHANGED << ingestorVars, callbackVars >>

\* main: channel.queue_declare(queue=queue_name, durable=True)
Declare ==
    /\ pc[Processor] = "declare"
    /\ conn[Processor] = "open"
    /\ DeclareAccepted(durable)
    /\ QueueDeclared(durable)
    /\ pc' = Set(pc, Processor, "consume")
    /\ UNCHANGED << conn, retry_delay, sleeps, attempts, exc, intr, intrAt, closeCalls >>
    /\ UNCHANGED << queue, unacked, lastTag, consumer, consumerPrefetch,
                    channelPrefetch, restarts, foreign, wire >>
    /\ UNCHANGED << ingestorVars, callbackVars >>

\* main: channel.basic_consume(queue, on_message_callback=process_message).
\* The consumer is registered with the channel's prefetch limit of that
\* moment, which is none: basic_qos has not been called yet.
BasicConsume ==
    /\ pc[Processor] = "consume"
    /\ conn[Processor] = "open"
    /\ consumer' = TRUE
    /\ consumerPrefetch' = channelPrefetch
    /\ pc' = Set(pc, Processor, "qos")
    /\ UNCHANGED << conn, retry_delay, sleeps, attempts, exc, intr, intrAt, closeCalls >>
    /\ UNCHANGED << queueExists, queueDurable, queue, unacked, lastTag,
                    channelPrefetch, restarts, foreign, wire >>
    /\ UNCHANGED << ingestorVars, callbackVars >>

\* main: channel.basic_qos(prefetch_count=1). The limit is set on the channel;
\* whether it also binds the consumer registered before it depends on the
\* broker (AMQP 0-9-1: yes; RabbitMQ: only consumers registered afterwards).
BasicQos ==
    /\ pc[Processor] = "qos"
    /\ conn[Processor] = "open"
    /\ channelPrefetch' = prefetch_count
    /\ \E applies \in BOOLEAN :
          consumerPrefetch' = IF applies THEN prefetch_count ELSE consumerPrefetch
    /\ pc' = Set(pc, Processor, "consuming")
    /\ UNCHANGED << conn, retry_delay, sleeps, attempts, exc, intr, intrAt, closeCalls >>
    /\ UNCHANGED << queueExists, queueDurable, queue, unacked, lastTag,
                    consumer, restarts, foreign, wire >>
    /\ UNCHANGED << ingestorVars, callbackVars >>

\* main: queue_declare, basic_consume, basic_qos or start_consuming raises
\* on the lost connection; except Exception takes it
ConsumeFails ==
    /\ pc[Processor] \in {"declare", "consume", "qos", "consuming"}
    /\ conn[Processor] = "lost"
    /\ exc' = Set(exc, Processor, "Exception")
    /\ pc' = Set(pc, Processor, "main_except")
    /\ UNCHANGED << conn, retry_delay, sleeps, attempts, intr, intrAt, closeCalls >>
    /\ UNCHANGED << ingestorVars, brokerVars, callbackVars >>

\* The broker cancels the consumer; start_consuming has no consumer left and
\* returns, and main goes on to its finally block.
ConsumerCancelled ==
    /\ pc[Processor] = "consuming"
    /\ conn[Processor] = "open"
    /\ consumer
    /\ consumer' = FALSE
    /\ pc' = Set(pc, Processor, "finally")
    /\ UNCHANGED << conn, retry_delay, sleeps, attempts, exc, intr, intrAt, closeCalls >>
    /\ UNCHANGED << queueExists, queueDurable, queue, unacked, lastTag,
                    consumerPrefetch, channelPrefetch, restarts, foreign, wire >>
    /\ UNCHANGED << ingestorVars, callbackVars >>

\* start_consuming hands the next received delivery to process_message
Dispatch ==
    /\ pc[Processor] = "consuming"
    /\ conn[Processor] = "open"
    /\ \E i \in 1..Len(unacked) :
          /\ unacked[i].tag = lastDispatched + 1
          /\ cur' = unacked[i]
          /\ handled' = Append(handled, unacked[i].msg)
    /\ lastDispatched' = lastDispatched + 1
    /\ cbState' = "running"
    /\ settleCalls' = << >>
    /\ settleEffects' = 0
    /\ pc' = Set(pc, Processor, "cb_body")
    /\ UNCHANGED << conn, retry_delay, sleeps, attempts, exc, intr, intrAt, closeCalls >>
    /\ UNCHANGED << ingestorVars, brokerVars >>

\* json.loads(body.decode('utf-8'))
Decode(kind) ==
    CASE kind = "bad_utf8" -> "UnicodeDecodeError"
      [] kind = "bad_json" -> "JSONDecodeError"
      [] OTHER -> "ok"

\* message.get('status') ... message.get('game_id'): a JSON value that is
\* not an object has no get
Body(kind) == IF kind = "not_object" THEN "AttributeError" ELSE "ok"

\* A process_message that acknowledges only what it processed: a message
\* whose status is not placeholder_data is rejected.
HandlerBranchStatusOnly(kind) ==
    CASE Decode(kind) = "JSONDecodeError" -> "cb_nack_json"
      [] Decode(kind) = "UnicodeDecodeError" -> "cb_nack_exc"
      [] Body(kind) # "ok" -> "cb_nack_exc"
      [] kind = "other_status" -> "cb_nack_exc"
      [] OTHER -> "cb_ack"

\* The statement process_message reaches after its try body, before the
\* settlement: basic_ack (line 106), the basic_nack of except
\* json.JSONDecodeError (line 111) or the one of except Exception (line 116).
HandlerBranch(kind) ==
    CASE Decode(kind) = "JSONDecodeError" -> "cb_nack_json"
      [] Decode(kind) = "UnicodeDecodeError" -> "cb_nack_exc"
      [] Body(kind) # "ok" -> "cb_nack_exc"
      [] OTHER -> "cb_ack"

\* process_message: decode, log, placeholder processing
CbBody ==
    /\ pc[Processor] = "cb_body"
    /\ pc' = Set(pc, Processor, HandlerBranch(cur.msg.kind))
    /\ UNCHANGED << conn, retry_delay, sleeps, attempts, exc, intr, intrAt, closeCalls >>
    /\ UNCHANGED << ingestorVars, brokerVars, callbackVars >>

Without(ds, t) == SelectSeq(ds, LAMBDA d : d.tag # t)

\* The broker applies a settlement of tag t: an ack, or a nack without
\* requeue, removes the message; a nack with requeue puts it back.
Settle(t, back) ==
    /\ unacked' = Without(unacked, t)
    /\ queue' = IF back
                THEN Msgs(SelectSeq(unacked, LAMBDA d : d.tag = t)) \o queue
                ELSE queue

\* A process_message that returns without acknowledging.
CbAckMissing ==
    /\ pc[Processor] = "cb_ack"
    /\ conn[Processor] = "open"
    /\ cbState' = "returned"
    /\ pc' = Set(pc, Processor, "consuming")
    /\ UNCHANGED << conn, retry_delay, sleeps, attempts, exc, intr, intrAt, closeCalls >>
    /\ UNCHANGED << ingestorVars, brokerVars >>
    /\ UNCHANGED << cur, lastDispatched, settleCalls, settleEffects, handled >>

\* process_message: ch.basic_ack(delivery_tag=method.delivery_tag) and return
CbAck ==
    /\ pc[Processor] = "cb_ack"
    /\ conn[Processor] = "open"
    /\ Settle(cur.tag, FALSE)
    /\ settleCalls' = Append(settleCalls, "ack")
    /\ settleEffects' = settleEffects + 1
    /\ cbState' = "returned"
    /\ pc' = Set(pc, Processor, "consuming")
    /\ UNCHANGED << conn, retry_delay, sleeps, attempts, exc, intr, intrAt, closeCalls >>
    /\ UNCHANGED << queueExists, queueDurable, lastTag, consumer, consumerPrefetch,
                    channelPrefetch, restarts, foreign, wire >>
    /\ UNCHANGED << ingestorVars, cur, lastDispatched, handled >>

\* process_message: basic_ack raises inside the try block; except Exception
\* takes it and goes on to basic_nack of the same tag
CbAckFails ==
    /\ pc[Processor] = "cb_ack"
    /\ conn[Processor] = "lost"
    /\ settleCalls' = Append(settleCalls, "ack")
    /\ pc' = Set(pc, Processor, "cb_nack_exc")
    /\ UNCHANGED << conn, retry_delay, sleeps, attempts, exc, intr, intrAt, closeCalls >>
    /\ UNCHANGED << ingestorVars, brokerVars >>
    /\ UNCHANGED << cur, lastDispatched, cbState, settleEffects, handled >>

\* process_message: ch.basic_nack(delivery_tag, requeue=False) in either
\* except clause. When it returns, process_message returns; when it raises
\* (the connection is lost) nothing in process_message catches it: it leaves
\* start_consuming and main's except Exception takes it.
CbNack ==
    /\ pc[Processor] \in {"cb_nack_json", "cb_nack_exc"}
    /\ settleCalls' = Append(settleCalls, "nack")
    /\ IF conn[Processor] = "open"
       THEN /\ Settle(cur.tag, requeue)
            /\ settleEffects' = settleEffects + 1
            /\ cbState' = "returned"
            /\ pc' = Set(pc, Processor, "consuming")
            /\ UNCHANGED exc
       ELSE /\ UNCHANGED << unacked, queue, settleEffects >>
            /\ cbState' = "raised"
            /\ exc' = Set(exc, Processor, "Exception")
            /\ pc' = Set(pc, Processor, "main_except")
    /\ UNCHANGED << conn, retry_delay, sleeps, attempts, intr, intrAt, closeCalls >>
    /\ UNCHANGED << queueExists, queueDurable, lastTag, consumer, consumerPrefetch,
                    channelPrefetch, restarts, foreign, wire >>
    /\ UNCHANGED << ingestorVars, cur, lastDispatched, handled >>

\* main: except KeyboardInterrupt: channel.stop_consuming(). The consumer is
\* cancelled and the deliveries received but not yet handed to
\* process_message are returned to the queue; on a lost connection the call
\* raises inside the handler.
StopConsuming ==
    /\ pc[Processor] = "intr"
    /\ IF conn[Processor] = "open"
       THEN /\ consumer' = FALSE
            /\ unacked' = SelectSeq(unacked, LAMBDA d : d.tag <= lastDispatched)
            /\ queue' = Msgs(SelectSeq(unacked, LAMBDA d : d.tag > lastDispatched))
                           \o queue
            /\ pc' = Set(pc, Processor, "finally")
       ELSE /\ UNCHANGED << consumer, unacked, queue >>
            /\ pc' = Set(pc, Processor, "finally_reraise")
    /\ UNCHANGED << conn, retry_delay, sleeps, attempts, exc, intr, intrAt, closeCalls >>
    /\ UNCHANGED << queueExists, queueDurable, lastTag, consumerPrefetch,
                    channelPrefetch, restarts, foreign, wire >>
    /\ UNCHANGED << ingestorVars, callbackVars >>

\* --------------------------------------------------------- interrupt signal

InTry(p) ==
    pc[p] \in {"loop", "pm_declare", "pm_publish", "sleep",
               "declare", "consume", "qos", "consuming",
               "cb_body", "cb_ack", "cb_nack_json", "cb_nack_exc"}

InCallback == pc[Processor] \in {"cb_body", "cb_ack", "cb_nack_json", "cb_nack_exc"}

\* A main loop whose publish-interval sleep and consume wait swallow the
\* interrupt and go on.
InterruptSwallowed(p) ==
    CASE pc[p] \in {"connecting", "backoff", "channel"} -> "crashed"
      [] pc[p] = "sleep" -> "loop"
      [] pc[p] = "consuming" -> "consuming"
      [] InTry(p) -> IF p = Ingestor THEN "finally" ELSE "intr"
      [] OTHER -> "finally_reraise"

\* A connect loop with a bare except clause, which takes the interrupt as one
\* more failed attempt.
InterruptAbsorbed(p) ==
    CASE pc[p] \in {"connecting", "backoff"} -> "backoff"
      [] pc[p] = "channel" -> "crashed"
      [] InTry(p) -> IF p = Ingestor THEN "finally" ELSE "intr"
      [] OTHER -> "finally_reraise"

\* A processor whose except KeyboardInterrupt clause only logs, as the
\* ingestor's does, and does not call stop_consuming.
InterruptSkipsStop(p) ==
    CASE pc[p] \in {"connecting", "backoff", "channel"} -> "crashed"
      [] InTry(p) -> "finally"
      [] OTHER -> "finally_reraise"

\* Where KeyboardInterrupt takes process p. It is no Exception, so the except
\* clauses of create_rabbitmq_connection, publish_message and process_message
\* let it pass. Outside main's try block it leaves main; inside, except
\* KeyboardInterrupt takes it (the ingestor only logs, the processor calls
\* stop_consuming); inside an except clause of main it is re-raised after
\* the finally block.
InterruptTarget(p) ==
    CASE pc[p] \in {"connecting", "backoff", "channel"} -> "crashed"
      [] InTry(p) -> IF p = Ingestor THEN "finally" ELSE "intr"
      [] OTHER -> "finally_reraise"

\* The blocking calls an interrupt can arrive in that the record keeps apart:
\* a connection attempt, the backoff sleep, the publish-interval sleep and the
\* wait in start_consuming; every other statement is "other".
IntrPoint(p) ==
    IF pc[p] \in {"connecting", "backoff", "sleep", "consuming"} THEN pc[p] ELSE "other"

\* An interrupt signal arrives while p is at a statement before the finally block.
Interrupt(p) ==
    /\ intr[p] < MaxInterrupts
    /\ pc[p] \notin Terminal \cup {"finally", "finally_reraise"}
    /\ intr' = Set(intr, p, intr[p] + 1)
    /\ intrAt' = IF intrAt[p] = "none" THEN Set(intrAt, p, IntrPoint(p)) ELSE intrAt
    /\ exc' = Set(exc, p, "KeyboardInterrupt")
    /\ pc' = Set(pc, p, InterruptTarget(p))
    /\ cbState' = IF p = Processor /\ InCallback THEN "interrupted" ELSE cbState
    /\ UNCHANGED << conn, retry_delay, sleeps, attempts, closeCalls >>
    /\ UNCHANGED << ingestorVars, brokerVars >>
    /\ UNCHANGED << cur, lastDispatched, settleCalls, settleEffects, handled >>

\* An interrupt signal arrives inside connection.close(): the bare except
\* drops it, and the connection is left as it was.
InterruptClose(p) ==
    /\ intr[p] < MaxInterrupts
    /\ pc[p] \in {"finally", "finally_reraise"}
    /\ intr' = Set(intr, p, intr[p] + 1)
    /\ intrAt' = IF intrAt[p] = "none" THEN Set(intrAt, p, IntrPoint(p)) ELSE intrAt
    /\ closeCalls' = Set(closeCalls, p, closeCalls[p] + 1)
    /\ pc' = Set(pc, p, AfterFinally(p))
    /\ UNCHANGED << conn, retry_delay, sleeps, attempts, exc >>
    /\ UNCHANGED << ingestorVars, brokerVars, callbackVars >>

\* ----------------------------------------------------------- specifications

\* Steps of process p that both roles have.
Common(p, n) ==
    \/ ConnectOk(p)
    \/ ConnectFail(p, n)
    \/ BackoffDone(p)
    \/ OpenChannel(p)
    \/ OpenChannelFails(p)
    \/ MainExcept(p)
    \/ Close(p)
    \/ Interrupt(p)
    \/ InterruptClose(p)
    \/ ConnLost(p)

IngestorStep ==
    \/ Loop
    \/ PmDeclare
    \/ PmDeclareFails
    \/ PmPublish
    \/ PmPublishFails
    \/ SleepDone

ProcessorStep ==
    \/ Declare
    \/ BasicConsume
    \/ BasicQos
    \/ ConsumeFails
    \/ ConsumerCancelled
    \/ Dispatch
    \/ CbBody
    \/ CbAck
    \/ CbAckFails
    \/ CbNack
    \/ StopConsuming

\* The deployed system: one ingestor, one processor, the broker.
Next ==
    \/ Common(Ingestor, MaxRunFailures)
    \/ Common(Processor, MaxRunFailures)
    \/ IngestorStep
    \/ ProcessorStep
    \/ BrokerRestart
    \/ Route
    \/ Deliver

Spec == Init /\ [][Next]_vars

\* The processor on a queue that some publisher fills with arbitrary bodies.
NextConsumer ==
    \/ Common(Processor, MaxRunFailures)
    \/ ProcessorStep
    \/ BrokerRestart
    \/ Deliver
    \/ \E k \in ForeignKinds : ForeignPublish(k)

SpecConsumer == Init /\ [][NextConsumer]_vars

\* create_rabbitmq_connection of both roles, on its own.
NextConnect ==
    \E p \in Procs :
        \/ ConnectOk(p)
        \/ ConnectFail(p, MaxConnectFailures)
        \/ BackoffDone(p)
        \/ Interrupt(p)

SpecConnect == Init /\ [][NextConnect]_vars

\* The connect loop of a process that keeps running: a connection attempt
\* that was started returns or raises, and time.sleep(retry_delay) returns.
\* The broker refuses at most MaxConnectFailures attempts of a process, after
\* which every attempt succeeds.
ConnectFairness ==
    \A p \in Procs :
       /\ WF_vars(ConnectOk(p) \/ ConnectFail(p, MaxConnectFailures))
       /\ WF_vars(BackoffDone(p))

SpecConnectFair == Init /\ [][NextConnect]_vars /\ ConnectFairness

\* ------------------------------------------------------------------ claims

Range(f) == {f[i] : i \in DOMAIN f}

\* The messages the broker holds for the queue: ready or delivered and unsettled.
Held == Range(queue) \cup Range(Msgs(unacked))

Depth == Len(queue) + Len(unacked)

\* process_message has run to its end, by returning or by raising.
HandlerEnded == cbState \in {"returned", "raised"}

\* C1 (as claimed): whenever process_message has run to its end, whatever the
\* body and whether or not basic_ack or basic_nack raised, it made exactly
\* one settlement call for the delivery tag and the broker applied exactly one.
C1_ExactlyOnce ==
    HandlerEnded => Len(settleCalls) = 1 /\ settleEffects = 1

\* C2 (as claimed): from the registration of the consumer on, the broker has
\* at most one delivery outstanding (sent and not settled) for it.
C2_PrefetchBound ==
    consumer => Len(unacked) <= 1

\* C3 (as claimed): a process that has ended after create_rabbitmq_connection
\* returned a connection does not leave that connection open.
C3_Released ==
    \A p \in Procs : pc[p] \in Terminal => conn[p] # "open"

\* C4: after an interrupt that arrived in the ingestor's publish-interval
\* sleep or in the processor's wait in start_consuming, connection.close()
\* is called exactly once by the time the process has ended (and never more),
\* no further publish_message call or publish is made, and no further
\* delivery is handed to process_message.
C4_GracefulShutdown ==
    [][ /\ \A p \in Procs :
              intrAt'[p] \in {"sleep", "consuming"} =>
                 /\ closeCalls'[p] <= 1
                 /\ pc'[p] \in Terminal => closeCalls'[p] = 1
        /\ intrAt[Ingestor] = "sleep" =>
              /\ pmCalls' = pmCalls
              /\ published' = published
              /\ pc'[Ingestor] \notin {"loop", "pm_declare", "pm_publish", "sleep"}
        /\ intrAt[Processor] = "consuming" =>
              /\ lastDispatched' = lastDispatched
              /\ handled' = handled
              /\ pc'[Processor] \notin {"cb_body", "cb_ack", "cb_nack_json", "cb_nack_exc"}
      ]_vars

\* Both processes were interrupted in their wait, closed once and ended.
C4_Witness ==
    /\ intrAt[Ingestor] = "sleep" /\ pc[Ingestor] = "terminated"
    /\ closeCalls[Ingestor] = 1 /\ conn[Ingestor] = "closed"
    /\ intrAt[Processor] = "consuming" /\ pc[Processor] = "terminated"
    /\ closeCalls[Processor] = 1 /\ conn[Processor] = "closed"

\* C5: in one call of create_rabbitmq_connection the first sleep is 1 second,
\* each further one is min(2 * previous, 60), none exceeds 60 and none is
\* shorter than the one before.
C5_Backoff ==
    \A p \in Procs :
        /\ sleeps[p] # << >> => sleeps[p][1] = 1
        /\ \A i \in 1..Len(sleeps[p]) : sleeps[p][i] <= 60
        /\ \A i \in 1..(Len(sleeps[p]) - 1) :
              /\ sleeps[p][i + 1] = (IF 2 * sleeps[p][i] < 60 THEN 2 * sleeps[p][i] ELSE 60)
              /\ sleeps[p][i + 1] >= sleeps[p][i]

\* A call that slept 1, 2, 4, 8, 16, 32, 60, 60.
C5_Witness ==
    \E p \in Procs : sleeps[p] = << 1, 2, 4, 8, 16, 32, 60, 60 >>

\* C6 (as claimed): a process whose main has returned was interrupted.
C6_OnlyInterruptEnds ==
    \A p \in Procs : pc[p] = "terminated" => intr[p] > 0

\* start_consuming returned because the consumer was cancelled.
ConsumeEnded ==
    /\ exc[Processor] = "none"
    /\ conn[Processor] # "none"
    /\ channelPrefetch = prefetch_count
    /\ ~consumer

\* C6 (amended): a process ends only by an interrupt, by an error raised after
\* create_rabbitmq_connection returned the connection, or (processor) by
\* start_consuming returning; a failed connection attempt never ends it.
C6_EndsByInterruptOrLoopError ==
    \A p \in Procs :
        pc[p] \in Terminal =>
            \/ intr[p] > 0
            \/ exc[p] = "Exception" /\ conn[p] # "none"
            \/ p = Processor /\ ConsumeEnded

\* A process that survived a failed connection attempt and was then ended,
\* without any interrupt, by an error of its main loop.
C6_Witness ==
    \E p \in Procs :
        /\ pc[p] = "terminated" /\ intr[p] = 0
        /\ exc[p] = "Exception" /\ sleeps[p] # << >>

Nums(S) == {m.num : m \in S}

\* C7 (as claimed): after a broker restart, every message whose
\* publish_message call returned is in the queue or has been handed to the
\* processor.
C7_SurvivesRestart ==
    restarts > 0 => published \subseteq Nums(Held \cup Range(handled))

Malformed == {"bad_json", "bad_utf8"}

\* C8 (as claimed): once process_message has run to its end on a body that
\* is not valid JSON (bad_utf8 included), it has made one basic_nack call and
\* no basic_ack call, the broker has applied the rejection, and the message
\* is no longer in the queue, ready or unsettled, to be delivered again.
C8_RejectedAndGone ==
    cur.msg.kind \in Malformed /\ HandlerEnded =>
        /\ settleCalls = << "nack" >>
        /\ settleEffects = 1
        /\ cur.msg \notin Held

\* C9: create_rabbitmq_connection returns only in the step in which an
\* attempt succeeded, with that attempt's open connection; a failed attempt
\* is followed by a sleep and the sleep by another attempt; the call ends
\* without a connection only by an interrupt, never by the failure.
C9_RetriesUntilConnected ==
    [][ \A p \in Procs :
          /\ pc[p] \in {"connecting", "backoff"} /\ pc'[p] = "channel" =>
                /\ pc[p] = "connecting"
                /\ attempts'[p] = attempts[p] + 1
                /\ conn'[p] = "open"
                /\ sleeps'[p] = sleeps[p]
          /\ pc[p] = "connecting" /\ attempts'[p] = attempts[p] + 1 /\ conn'[p] # "open" =>
                /\ pc'[p] = "backoff"
                /\ sleeps'[p] = Append(sleeps[p], retry_delay[p])
                /\ exc'[p] = exc[p]
          /\ pc[p] = "backoff" /\ pc'[p] # "backoff" /\ intr'[p] = intr[p] =>
                pc'[p] = "connecting"
          /\ pc[p] \in {"connecting", "backoff"} /\ pc'[p] \in Terminal =>
                intr'[p] = intr[p] + 1
      ]_vars

\* The call returned a connection after three failed attempts or more.
C9_Witness ==
    \E p \in Procs :
        pc[p] = "channel" /\ conn[p] = "open" /\ Len(sleeps[p]) >= 3

\* C10: a publish_message call makes at most one basic_publish attempt; when
\* queue_declare raises the call ends by raising to main with no publish
\* attempted, and when basic_publish raises the call ends by raising to main.
C10_PublishFailureSurfaces ==
    [][ /\ pmPublishes' <= 1
        /\ pc[Ingestor] = "pm_declare" /\ pc'[Ingestor] # "pm_declare"
             /\ intr'[Ingestor] = intr[Ingestor] =>
              \/ pc'[Ingestor] = "pm_publish" /\ conn[Ingestor] = "open"
              \/ /\ pc'[Ingestor] = "main_except"
                 /\ exc'[Ingestor] = "Exception"
                 /\ pmPublishes' = 0
                 /\ wire' = wire
                 /\ published' = published
        /\ pc[Ingestor] = "pm_publish" /\ pmPublishes' = pmPublishes + 1 =>
              \/ /\ pc'[Ingestor] = "sleep"
                 /\ published' = published \cup {message_counter}
              \/ /\ pc'[Ingestor] = "main_except"
                 /\ exc'[Ingestor] = "Exception"
                 /\ published' = published
                 /\ message_counter' = message_counter
                 /\ wire' = wire
      ]_vars

\* basic_publish raised and the error is with main.
C10_Witness ==
    /\ pc[Ingestor] = "main_except"
    /\ exc[Ingestor] = "Exception"
    /\ pmPublishes = 1
    /\ intr[Ingestor] = 0

\* The bodies that decode to a JSON object, whatever its status: the ones
\* on which decoding and the processing body raise nothing.
Processable == {"valid", "other_status"}

NoDuplicates(q) == \A i, j \in 1..Len(q) : q[i] = q[j] => i = j

\* C11: by the time process_message has run to its end it has called
\* basic_ack if and only if the body decoded to a JSON object (whatever its
\* status), and otherwise it has called basic_nack and nothing else; when it
\* returns, that one settlement is the one the broker applied; a settlement
\* the broker applies removes the message from the queue (no rejection
\* requeues), and no message is handed to process_message a second time.
C11_SettlementFollowsOutcome ==
    [][ /\ HandlerEnded' =>
              /\ "ack" \in Range(settleCalls') <=> cur'.msg.kind \in Processable
              /\ cur'.msg.kind \notin Processable => settleCalls' = << "nack" >>
        /\ cbState' = "returned" =>
              /\ settleEffects' = 1
              /\ settleCalls' = (IF cur'.msg.kind \in Processable
                                 THEN << "ack" >> ELSE << "nack" >>)
        /\ settleEffects' = settleEffects + 1 =>
              /\ cur.msg \in Held
              /\ cur.msg \notin Held'
              /\ Depth' = Depth - 1
        /\ NoDuplicates(handled')
      ]_vars

\* A JSON array was rejected and then an object with another status was
\* acknowledged.
C11_Witness ==
    /\ Len(handled) = 2
    /\ handled[1].kind = "not_object"
    /\ cur.msg.kind = "other_status"
    /\ cbState = "returned"
    /\ settleCalls = << "ack" >>
    /\ Held = {}

\* A queue_declare of either role returns: the ingestor's inside
\* publish_message, the processor's at startup.
DeclareReturns ==
    \/ pc[Ingestor] = "pm_declare" /\ pc'[Ingestor] = "pm_publish"
    \/ pc[Processor] = "declare" /\ pc'[Processor] = "consume"

\* C12: a queue_declare on a queue that already exists, by the ingestor or by
\* the processor, is accepted by the broker (the properties it asks for are
\* the ones the queue has), and leaves the queue's durability, its enqueued
\* messages and its outstanding deliveries as they were.
C12_DeclareIdempotent ==
    [][ /\ queueExists' => queueDurable' = durable
        /\ \A p \in Procs :
              pc'[p] \in {"pm_declare", "declare"} /\ conn'[p] = "open"
                 => (~queueExists' \/ queueDurable' = durable)
        /\ DeclareReturns /\ queueExists =>
              /\ queueExists'
              /\ queueDurable' = queueDurable
              /\ queue' = queue
              /\ unacked' = unacked
              /\ wire' = wire
      ]_vars

\* The ingestor has declared the queue for its second message after the
\* processor declared it too, with the first message enqueued.
C12_Witness ==
    /\ pc[Ingestor] = "pm_publish"
    /\ message_counter = 2
    /\ pc[Processor] = "consume"
    /\ queue # << >>
    /\ queueDurable

\* connection.close() is called by p in this step.
CloseCalled(p) == closeCalls'[p] = closeCalls[p] + 1

\* p is past its main loop because of an interrupt: in except
\* KeyboardInterrupt or in the finally block that follows it.
Interrupted(p) ==
    /\ exc[p] = "KeyboardInterrupt"
    /\ pc[p] \in {"intr", "finally", "finally_reraise"}

\* C13: an interrupt that arrives inside the try block takes the processor to
\* channel.stop_consuming() and the ingestor out of its publish loop, and
\* close() is not part of that step; from the interrupt until close() no
\* delivery is handed to process_message and no publish is started; when
\* stop_consuming has returned and close() is called, the consumer is
\* cancelled, the broker has sent nothing since, and no delivery waits
\* undispatched in the client.
C13_StopBeforeClose ==
    [][ /\ \A p \in Procs :
              intr'[p] = intr[p] + 1 /\ InTry(p) =>
                 /\ pc'[p] = (IF p = Ingestor THEN "finally" ELSE "intr")
                 /\ ~CloseCalled(p)
        /\ pc[Processor] = "intr" => ~CloseCalled(Processor)
        /\ Interrupted(Processor) =>
              /\ handled' = handled
              /\ lastDispatched' = lastDispatched
        /\ Interrupted(Processor) /\ pc[Processor] = "finally" =>
              /\ ~consumer
              /\ lastTag' = lastTag
              /\ \A i \in 1..Len(unacked) : unacked[i].tag <= lastDispatched
        /\ Interrupted(Ingestor) =>
              /\ pmCalls' = pmCalls
              /\ pmPublishes' = pmPublishes
              /\ published' = published
              /\ Len(wire') <= Len(wire)
        /\ \A p \in Procs : CloseCalled(p) => pc[p] \in {"finally", "finally_reraise"}
      ]_vars

\* The processor was interrupted while the broker had pushed a delivery it
\* had not dispatched: stop_consuming returned it to the queue, and close()
\* is still to come.
C13_Witness ==
    /\ pc[Processor] = "finally"
    /\ exc[Processor] = "KeyboardInterrupt"
    /\ conn[Processor] = "open"
    /\ closeCalls[Processor] = 0
    /\ ~consumer
    /\ lastTag > lastDispatched
    /\ queue # << >>

\* C14: an exception other than an interrupt that is raised inside the try
\* block of either main (by publish_message, by queue_declare, basic_consume,
\* basic_qos or start_consuming, or out of process_message) is taken by
\* main's except Exception clause; unless an interrupt arrives meanwhile,
\* main then runs the finally block, calls connection.close() once and
\* returns, with the connection no longer open. An exception leaves main
\* only from before the try block, or as an interrupt raised in a handler.
C14_LoopErrorShutsDown ==
    [][ \A p \in Procs :
          /\ InTry(p) /\ exc'[p] = "Exception" /\ exc[p] # "Exception" =>
                pc'[p] = "main_except"
          /\ pc[p] = "main_except" /\ pc'[p] # "main_except" /\ intr'[p] = intr[p] =>
                pc'[p] = "finally" /\ exc'[p] = "Exception"
          /\ pc[p] = "finally" /\ exc[p] = "Exception" /\ pc'[p] # "finally" =>
                /\ pc'[p] = "terminated"
                /\ closeCalls[p] = 0
                /\ closeCalls'[p] = 1
                /\ conn'[p] # "open"
          /\ pc'[p] = "finally_reraise" => exc'[p] = "KeyboardInterrupt"
          /\ pc'[p] = "crashed" /\ pc[p] # "crashed" =>
                \/ pc[p] \in {"connecting", "backoff", "channel"}
                \/ pc[p] = "finally_reraise"
      ]_vars

\* basic_nack raised out of process_message; main caught it, called close()
\* and returned.
C14_Witness ==
    /\ pc[Processor] = "terminated"
    /\ exc[Processor] = "Exception"
    /\ cbState = "raised"
    /\ closeCalls[Processor] = 1
    /\ intr[Processor] = 0

\* C15: whichever role starts first on a broker that has no queue yet, a
\* basic_publish that writes a message, the routing of that message by the
\* broker, and a basic_consume that registers the consumer each find the
\* queue in existence, and the role reached the call from its own
\* queue_declare; a queue that exists is never removed.
C15_DeclaredBeforeUse ==
    [][ /\ Len(wire') > Len(wire) =>
              queueExists /\ pc[Ingestor] = "pm_publish"
        /\ pc'[Ingestor] = "pm_publish" /\ pc[Ingestor] # "pm_publish" =>
              pc[Ingestor] = "pm_declare" /\ queueExists'
        /\ Len(wire') < Len(wire) /\ restarts' = restarts /\ conn' = conn =>
              queueExists /\ queue' = Append(queue, Head(wire))
        /\ consumer' /\ ~consumer =>
              queueExists /\ pc[Processor] = "consume"
        /\ pc'[Processor] = "consume" /\ pc[Processor] # "consume" =>
              pc[Processor] = "declare" /\ queueExists'
        /\ queueExists => queueExists'
      ]_vars

\* The ingestor started first: its message is in the queue while the
\* processor has not connected yet.
C15_Witness ==
    /\ pc[Processor] = "connecting"
    /\ attempts[Processor] = 0
    /\ queue # << >>
    /\ queueExists

\* start_consuming hands a delivery to process_message in this step.
HandlerStarts == Len(handled') = Len(handled) + 1

\* C16: with one ingestor and one processor, process_message is running
\* exactly while the processor is inside it, so at most one invocation is in
\* progress; a handler starts only when no handler is running and every
\* delivery handed over before has been settled at the broker; and the
\* messages are handed over in increasing message_number.
C16_SerialInOrder ==
    [][ /\ (cbState' = "running") <=>
              pc'[Processor] \in {"cb_body", "cb_ack", "cb_nack_json", "cb_nack_exc"}
        /\ HandlerStarts =>
              /\ pc[Processor] = "consuming"
              /\ cbState \in {"none", "returned"}
              /\ cbState = "returned" => settleEffects = 1
              /\ \A i \in 1..Len(unacked) : unacked[i].tag > lastDispatched
              /\ cur'.tag = lastDispatched + 1
        /\ \A i, j \in 1..Len(handled') :
              i < j => handled'[i].num < handled'[j].num
      ]_vars

\* Two messages were handled, 1 then 2, each settled.
C16_Witness ==
    /\ Len(handled) = 2
    /\ handled[1].num = 1
    /\ handled[2].num = 2
    /\ cbState = "returned"
    /\ unacked = << >>

\* C17: a process that is in create_rabbitmq_connection, attempting or
\* sleeping between retries, eventually has its connection returned, unless
\* an interrupt arrives: once the broker accepts every attempt, the loop is
\* still attempting, whatever the delay has grown to.
C17_ConnectEventuallyReturns ==
    \A p \in Procs :
       pc[p] \in {"connecting", "backoff"}
          ~> (pc[p] = "channel" /\ conn[p] = "open") \/ intr[p] > 0

\* A connection was returned after the broker had refused as many attempts
\* as it ever does, the last ones at the capped delay.
C17_Witness ==
    \E p \in Procs :
       /\ pc[p] = "channel"
       /\ conn[p] = "open"
       /\ intr[p] = 0
       /\ Len(sleeps[p]) = MaxConnectFailures
       /\ retry_delay[p] = max_delay

\* The lifecycle state of process p: Connecting while it is in
\* create_rabbitmq_connection, Connected from the return of the connection to
\* the end of the try block, ShuttingDown from an except clause or the finally
\* block on, the end of the process included.
Phase(at) ==
    CASE at \in {"connecting", "backoff"} -> "Connecting"
      [] at \in {"main_except", "intr", "finally", "finally_reraise",
                 "terminated", "crashed"} -> "ShuttingDown"
      [] OTHER -> "Connected"

\* C18: the lifecycle of each process is one-way. From Connecting a process
\* goes to Connected or ends; from Connected only to ShuttingDown; from
\* ShuttingDown nowhere. Outside Connecting no connection attempt is made,
\* at most one attempt of a run succeeds, and a connection that was lost or
\* closed is never open again.
C18_OneWayLifecycle ==
    [][ \A p \in Procs :
          /\ Phase(pc[p]) = "Connecting" =>
                Phase(pc'[p]) \in {"Connecting", "Connected", "ShuttingDown"}
          /\ Phase(pc[p]) = "Connected" =>
                Phase(pc'[p]) \in {"Connected", "ShuttingDown"}
          /\ Phase(pc[p]) = "ShuttingDown" => Phase(pc'[p]) = "ShuttingDown"
          /\ Phase(pc[p]) # "Connecting" =>
                /\ attempts'[p] = attempts[p]
                /\ sleeps'[p] = sleeps[p]
                /\ retry_delay'[p] = retry_delay[p]
          /\ Phase(pc'[p]) = "Connecting" => conn'[p] = "none"
          /\ conn[p] # "none" /\ attempts'[p] = attempts[p] + 1 => FALSE
          /\ conn'[p] = "open" => conn[p] \in {"none", "open"}
          /\ conn[p] = "none" /\ conn'[p] = "open" =>
                pc[p] = "connecting" /\ pc'[p] = "channel"
          /\ pc[p] \in Terminal => pc'[p] = pc[p]
      ]_vars

\* The connection was lost in the main loop; the process shut down after its
\* one successful attempt, without connecting again.
C18_Witness ==
    \E p \in Procs :
       /\ pc[p] = "terminated"
       /\ conn[p] = "lost"
       /\ exc[p] = "Exception"
       /\ attempts[p] = Len(sleeps[p]) + 1
       /\ Len(sleeps[p]) = 1

\* C19: within the ingestor's run, the numbers published so far are exactly
\* 1 .. message_counter - 1; the message a successful basic_publish writes
\* carries message_counter, which then goes up by one, and no other step
\* changes it; a publish_message that raises leaves the counter as it was
\* and ends the loop, after which nothing is published.
C19_ConsecutiveNumbers ==
    [][ /\ published' = 1..(message_counter' - 1)
        /\ Len(wire') = Len(wire) + 1 =>
              /\ wire'[Len(wire')].num = message_counter
              /\ wire'[Len(wire')].num = Cardinality(published) + 1
              /\ message_counter' = message_counter + 1
              /\ published' = published \cup {message_counter}
        /\ message_counter' # message_counter =>
              /\ Len(wire') = Len(wire) + 1
              /\ message_counter' = message_counter + 1
        /\ exc'[Ingestor] = "Exception" /\ exc[Ingestor] # "Exception"
           /\ pc[Ingestor] \in {"pm_declare", "pm_publish"} =>
              /\ message_counter' = message_counter
              /\ published' = published
              /\ pc'[Ingestor] = "main_except"
        /\ pc[Ingestor] \in {"main_except", "finally", "finally_reraise",
                             "terminated", "crashed"} =>
              /\ message_counter' = message_counter
              /\ published' = published
              /\ pmCalls' = pmCalls
              /\ Len(wire') <= Len(wire)
      ]_vars

\* Message 1 was published and the second publish_message failed without
\* using number 2.
C19_Witness ==
    /\ published = {1}
    /\ message_counter = 2
    /\ pmCalls = 2
    /\ pc[Ingestor] = "terminated"
    /\ exc[Ingestor] = "Exception"

\* C20: an interrupt that arrives while create_rabbitmq_connection is
\* attempting or sleeping between retries leaves the call and main with it:
\* no connection is returned, and from then on the process makes no
\* connection attempt, sleeps no more and has no connection.
C20_InterruptLeavesConnect ==
    [][ \A p \in Procs :
          /\ intr'[p] = intr[p] + 1 /\ pc[p] \in {"connecting", "backoff"} =>
                /\ pc'[p] = "crashed"
                /\ exc'[p] = "KeyboardInterrupt"
                /\ conn'[p] = "none"
                /\ attempts'[p] = attempts[p]
                /\ sleeps'[p] = sleeps[p]
          /\ pc[p] = "crashed" /\ intrAt[p] \in {"connecting", "backoff"} =>
                /\ pc'[p] = "crashed"
                /\ conn'[p] = "none"
                /\ attempts'[p] = attempts[p]
                /\ sleeps'[p] = sleeps[p]
                /\ closeCalls'[p] = 0
      ]_vars

\* A process was interrupted in its third backoff sleep and ended without a
\* connection.
C20_Witness ==
    \E p \in Procs :
       /\ pc[p] = "crashed"
       /\ intrAt[p] = "backoff"
       /\ conn[p] = "none"
       /\ Len(sleeps[p]) = 3
       /\ attempts[p] = 3

====
